---------------------------- MODULE Spec2Model ----------------------------
(***************************************************************************)
(* Fitbit dashboard.  Backend: the glucose statistics endpoints of         *)
(* backend/app/routers/data.py (time-in-range, the hourly percentile       *)
(* profile AGP, daily summaries, correlations).  Frontend: the API client, *)
(* the Overview, Glucose, Heart Rate, Activity and Settings pages, the     *)
(* date range picker and the chart tick interval.  Each component has its  *)
(* own specification; the others stay idle in it.                          *)
(*                                                                         *)
(* Conventions.                                                            *)
(*  - A percentage with one decimal place is held in tenths: 25.0 is 250.  *)
(*  - A number that is not an integer is held as a numerator over a fixed  *)
(*    denominator (np.percentile's result times 100).  Arithmetic is exact;*)
(*    the binary floating point of the build is not modelled.              *)
(*  - Python's None is the empty sequence and a present value v is <<v>>.  *)
(*  - An HTTP response is a record with a status field; status 0 means no  *)
(*    response has been produced yet, 500 an unhandled exception.          *)
(***************************************************************************)
EXTENDS Integers, Sequences, FiniteSets

VARIABLES
    readings,        \* rows returned by the time-in-range query (values, mg/dL)
    low_threshold,   \* query parameter low_threshold
    high_threshold,  \* query parameter high_threshold
    tir,             \* response of GET /glucose/time-in-range
    agp_readings,    \* rows returned by the AGP query: [hour, value]
    agp,             \* response of GET /glucose/agp
    daily_rows,      \* glucose_readings table as the daily query sees it: [date, value]
    daily_start,     \* start_dt of the daily query, as a day number
    daily_end,       \* end_dt of the daily query (exclusive), as a day number
    daily,           \* response of the latest GET /glucose/daily
    daily_prev,      \* response of the call before it
    corr_glucose,    \* glucose rows in the correlation window: [date, value]
    corr_y,          \* the daily y series (resting_hr): a function date -> value
    data,            \* Correlations page state "data": the correlations response
    trend,           \* Correlations page trendLineData
    ov_response,     \* what GET /data/overview answers for the selected date
    ov_data,         \* Overview page state "data"
    ov_loading,      \* Overview page state "loading"
    ov_error,        \* Overview page state "error"
    ov_view,         \* what the Overview page shows
    req_count,       \* calls of request made so far
    req_path,        \* the path of the call in progress or last made
    req_pc,          \* where that call stands: idle, fetch, text, json, done
    req_response,    \* the Response its fetch resolved with, if it has
    req_result,      \* how the promise returned by request stands
    fetch_log,       \* every fetch issued: the call it belongs to and its url
    dp_now,          \* DateRangePicker: what new Date() gives, [day, time]
    dp_startDate,    \* prop startDate, a formatted date
    dp_endDate,      \* prop endDate
    dp_activePreset, \* state activePreset: null or a preset label
    dp_earliestDate, \* state earliestDate: null or a formatted date
    dp_metrics,      \* the /api/metrics fetch of the mount effect: pending, or what it settled with
    dp_onChange,     \* the onChange calls made by the last handler run
    dp_last,         \* the last user action: a preset click or a manual edit
    tick_dataLength, \* calculateTickInterval: its argument
    tick_interval,   \* calculateTickInterval: its result, once called
    nav_today,       \* Overview: the calendar day new Date() falls on, [y, m, d]
    nav_date,        \* Overview state "date", a yyyy-MM-dd string as character codes
    nav_inflight,    \* fetchOverview calls awaiting their response: [id, date]
    nav_issued,      \* fetchOverview calls started so far
    nav_data,        \* Overview state "data": null or the date the shown snapshot is of
    nav_loading,     \* Overview state "loading"
    nav_error,       \* Overview state "error"
    nav_applied,     \* the call whose response was written last
    nav_last,        \* the last date action: a shift with its inputs, or a pick
    selectedDay,     \* Glucose / Heart Rate state selectedDay
    day_requests,    \* fetchReadings runs awaiting their response: [id, day, cancelled]
    day_issued,      \* fetchReadings runs started so far
    day_readings,    \* state readings (intradayHR on the Heart Rate page)
    day_loading,     \* state loadingReadings (loadingIntraday)
    day_step,        \* the last step: a day selection, or an arrival with what it found
    act_range,       \* Activity state (startDate, endDate), as one range
    act_requests,    \* activity fetches whose promise chain has not run: [id, range, aborted]
    act_issued,      \* activity fetches started so far
    act_data,        \* state activityData
    act_loading,     \* state loadingActivity
    act_error,       \* state errorActivity
    act_step,        \* the last step: a range change, or a settled fetch with what it found
    up_uploads,      \* Settings: uploads started by handleFile: [id, file, xhr, promise, status]
    uploading,       \* state uploading
    uploadResult,    \* state uploadResult: null or the success message
    uploadError      \* state uploadError: null or the error message

tirVars == <<readings, low_threshold, high_threshold, tir>>
agpVars == <<agp_readings, agp>>
dailyVars == <<daily_rows, daily_start, daily_end, daily, daily_prev>>
vars == <<readings, low_threshold, high_threshold, tir, agp_readings, agp,
          daily_rows, daily_start, daily_end, daily, daily_prev,
          corr_glucose, corr_y, data, trend,
          ov_response, ov_data, ov_loading, ov_error, ov_view,
          req_count, req_path, req_pc, req_response, req_result, fetch_log,
          dp_now, dp_startDate, dp_endDate, dp_activePreset, dp_earliestDate,
          dp_metrics, dp_onChange, dp_last,
          tick_dataLength, tick_interval,
          nav_today, nav_date, nav_inflight, nav_issued, nav_data, nav_loading, nav_error, nav_applied, nav_last,
          selectedDay, day_requests, day_issued, day_readings, day_loading, day_step,
          act_range, act_requests, act_issued, act_data, act_loading, act_error, act_step,
          up_uploads, uploading, uploadResult, uploadError>>
pickerVars == <<dp_now, dp_startDate, dp_endDate, dp_activePreset, dp_earliestDate,
                dp_metrics, dp_onChange, dp_last>>
requestVars == <<req_count, req_path, req_pc, req_response, req_result, fetch_log>>
overviewVars == <<ov_response, ov_data, ov_loading, ov_error, ov_view>>
corrVars == <<corr_glucose, corr_y, data, trend>>
tickVars == <<tick_dataLength, tick_interval>>
navVars == <<nav_today, nav_date, nav_inflight, nav_issued, nav_data, nav_loading,
             nav_error, nav_applied, nav_last>>
dayVars == <<selectedDay, day_requests, day_issued, day_readings, day_loading,
             day_step>>
activityVars == <<act_range, act_requests, act_issued, act_data, act_loading,
                  act_error, act_step>>
settingsVars == <<up_uploads, uploading, uploadResult, uploadError>>

-----------------------------------------------------------------------------
(* Bounds of the model *)

MaxReadings == 4
MaxAgpReadings == 4
MaxDailyReadings == 3
MaxCorrReadings == 3
MaxRequests == 3
MaxMetrics == 2
MaxDataLength == 400
MaxNavRequests == 4
MaxDayRequests == 3
MaxActivityRequests == 3
MaxUploads == 2

TirValues == {40, 60, 70, 100, 180, 260}
LowThresholds == {40, 70, 150}
HighThresholds == {80, 180, 260}

AgpHours == {0, 8, 23}
AgpValues == {80, 81, 90}

DailyDays == {1, 2, 3}
DailyValues == {80, 81, 82}
\* <<start_dt, end_dt>>: all three days, day 2 alone, days 1 and 2, and an
\* empty window whose start lies after its end
DailyWindows == {<<1, 4>>, <<2, 3>>, <<1, 3>>, <<3, 1>>}

CorrDays == {1, 2, 3}
CorrGlucoseValues == {80, 90}
CorrYValues == {60, 65}

SeqsUpTo(S, n) == UNION {[1..k -> S] : k \in 0..n}

-----------------------------------------------------------------------------
(* Program constants *)

DEFAULT_LOW_THRESHOLD == 70
DEFAULT_HIGH_THRESHOLD == 180
VERY_LOW == 54
VERY_HIGH == 250
HOURS_PER_DAY == 24

Abs(x) == IF x < 0 THEN -x ELSE x

None == <<>>
Some(v) == <<v>>

NoResponse == [status |-> 0]
InternalServerError == [status |-> 500]

-----------------------------------------------------------------------------
(* Python helpers *)

\* Round n/d (d > 0) to the nearest integer, ties to even: Python's round().
RoundHalfEven(n, d) ==
    LET q == n \div d
        r == n % d
    IN  IF 2 * r < d THEN q
        ELSE IF 2 * r > d THEN q + 1
        ELSE IF q % 2 = 0 THEN q ELSE q + 1

\* round(count / total * 100) taken for round(count / total * 100, 1): a whole
\* percentage, in tenths.
RoundWhole(count, total) == 10 * RoundHalfEven(count * 100, total)

\* round(count / total * 100, 1), in tenths of a percent.
Round1(count, total) == RoundHalfEven(count * 1000, total)

-----------------------------------------------------------------------------
(* GET /glucose/time-in-range *)

low(rs, low_t) == Cardinality({i \in 1..Len(rs) : rs[i] < low_t})

high(rs, high_t) == Cardinality({i \in 1..Len(rs) : rs[i] > high_t})

\* the two clinical constants exchanged
very_low_swapped(rs) == Cardinality({i \in 1..Len(rs) : rs[i] < VERY_HIGH})

very_low(rs) == Cardinality({i \in 1..Len(rs) : rs[i] < VERY_LOW})

very_high(rs) == Cardinality({i \in 1..Len(rs) : rs[i] > VERY_HIGH})

in_range(rs, low_t, high_t) == Len(rs) - low(rs, low_t) - high(rs, high_t)

EmptyTimeInRange ==
    [status |-> 200,
     total_readings |-> 0,
     in_range_percent |-> 0,
     low_percent |-> 0,
     high_percent |-> 0,
     very_low_percent |-> 0,
     very_high_percent |-> 0]

TimeInRangeOf(rs, low_t, high_t) ==
    LET total == Len(rs)
    IN  [status |-> 200,
         total_readings |-> total,
         in_range_percent |-> Round1(in_range(rs, low_t, high_t), total),
         low_percent |-> Round1(low(rs, low_t), total),
         high_percent |-> Round1(high(rs, high_t), total),
         very_low_percent |-> Round1(very_low(rs), total),
         very_high_percent |-> Round1(very_high(rs), total)]

\* without the early return: the division by total = 0 raises ZeroDivisionError
get_glucose_time_in_range_unguarded(rs, low_t, high_t) ==
    IF Len(rs) = 0 THEN InternalServerError ELSE TimeInRangeOf(rs, low_t, high_t)

get_glucose_time_in_range(rs, low_t, high_t) ==
    IF rs = <<>> THEN EmptyTimeInRange ELSE TimeInRangeOf(rs, low_t, high_t)

TirInit ==
    /\ readings \in SeqsUpTo(TirValues, MaxReadings)
    /\ low_threshold \in LowThresholds
    /\ high_threshold \in HighThresholds
    /\ tir = NoResponse

TirIdle ==
    /\ readings = <<>>
    /\ low_threshold = DEFAULT_LOW_THRESHOLD
    /\ high_threshold = DEFAULT_HIGH_THRESHOLD
    /\ tir = NoResponse

TimeInRangeRequest ==
    /\ tir' = get_glucose_time_in_range(readings, low_threshold, high_threshold)
    /\ UNCHANGED <<readings, low_threshold, high_threshold>>

-----------------------------------------------------------------------------
(* GET /glucose/agp *)

\* the array left in the order the rows came in
unsorted(vs) == vs

\* the elements of vs in ascending order (np.percentile works on the sorted
\* array): position k holds the value with fewer than k elements below it and
\* at least k elements not above it
sorted(vs) ==
    [k \in 1..Len(vs) |->
        CHOOSE v \in {vs[i] : i \in 1..Len(vs)} :
            /\ Cardinality({i \in 1..Len(vs) : vs[i] < v}) < k
            /\ k <= Cardinality({i \in 1..Len(vs) : vs[i] <= v})]

\* np.percentile(arr, q, method="lower"), times 100
np_percentile_lower(vs, q) ==
    LET arr == sorted(vs)
        lo == ((Len(arr) - 1) * q) \div 100
    IN  100 * arr[lo + 1]

\* np.percentile(arr, q) with the default method "linear", times 100: the
\* virtual index (n-1)*q/100 is split into its integer part lo and its
\* fraction g/100, and the result is arr[lo] + (arr[lo+1] - arr[lo]) * g/100
np_percentile(vs, q) ==
    LET arr == sorted(vs)
        n == Len(arr)
        pos == (n - 1) * q
        lo == pos \div 100
        g == pos % 100
        hi == IF lo + 1 < n THEN lo + 1 ELSE lo
    IN  100 * arr[lo + 1] + (arr[hi + 1] - arr[lo + 1]) * g

\* int(x) for x = x100 / 100: truncation toward zero
int(x100) == IF x100 >= 0 THEN x100 \div 100 ELSE -((-x100) \div 100)

\* hourly_values[hour]: the values of the rows of that hour, in row order
hourly_values(rows, hour) ==
    LET sel == SelectSeq(rows, LAMBDA r : r.hour = hour)
    IN  [i \in 1..Len(sel) |-> sel[i].value]

EmptyHour(hour, absent) ==
    [hour |-> hour, p10 |-> absent, p25 |-> absent, median |-> absent,
     p75 |-> absent, p90 |-> absent, count |-> 0]

FilledHour(hour, values) ==
    [hour |-> hour,
     p10 |-> Some(int(np_percentile(values, 10))),
     p25 |-> Some(int(np_percentile(values, 25))),
     median |-> Some(int(np_percentile(values, 50))),
     p75 |-> Some(int(np_percentile(values, 75))),
     p90 |-> Some(int(np_percentile(values, 90))),
     count |-> Len(values)]

\* an empty hour reported with zeros in place of None
hourly_stat_zeros(rows, hour) ==
    LET values == hourly_values(rows, hour)
    IN  IF values = <<>> THEN EmptyHour(hour, Some(0)) ELSE FilledHour(hour, values)

\* one pass of the loop "for hour in range(24)"
hourly_stat(rows, hour) ==
    LET values == hourly_values(rows, hour)
    IN  IF values = <<>> THEN EmptyHour(hour, None) ELSE FilledHour(hour, values)

\* only the hours that have readings, in ascending order (hourly_values built
\* on demand instead of for range(24))
hourly_stats_sparse(rows) ==
    LET present == {rows[i].hour : i \in 1..Len(rows)}
        nth(k) == CHOOSE h \in present : Cardinality({x \in present : x < h}) = k - 1
    IN  [k \in 1..Cardinality(present) |-> hourly_stat(rows, nth(k))]

hourly_stats(rows) == [k \in 1..HOURS_PER_DAY |-> hourly_stat(rows, k - 1)]

get_glucose_agp(rows) ==
    [status |-> 200,
     total_readings |-> Len(rows),
     hourly |-> hourly_stats(rows)]

AgpRows == [hour : AgpHours, value : AgpValues]

AgpInit ==
    /\ agp_readings \in SeqsUpTo(AgpRows, MaxAgpReadings)
    /\ agp = NoResponse

AgpIdle ==
    /\ agp_readings = <<>>
    /\ agp = NoResponse

AgpRequest ==
    /\ agp' = get_glucose_agp(agp_readings)
    /\ UNCHANGED agp_readings

-----------------------------------------------------------------------------
(* GET /glucose/daily *)

RECURSIVE SumSeq(_)
SumSeq(vs) == IF vs = <<>> THEN 0 ELSE Head(vs) + SumSeq(Tail(vs))

SeqRange(vs) == {vs[i] : i \in 1..Len(vs)}

\* .filter(timestamp >= start_dt, timestamp < end_dt)
in_window(rows, start_dt, end_dt) ==
    SelectSeq(rows, LAMBDA r : start_dt <= r.date /\ r.date < end_dt)

\* the values of the group of one date
group_values(rows, d) ==
    LET sel == SelectSeq(rows, LAMBDA r : r.date = d)
    IN  [i \in 1..Len(sel) |-> sel[i].value]

\* the groups in the order their first row was stored (no ORDER BY)
group_dates_unordered(rows) ==
    LET firsts == SelectSeq([i \in 1..Len(rows) |-> i],
                    LAMBDA i : \A j \in 1..(i - 1) : rows[j].date # rows[i].date)
    IN  [k \in 1..Len(firsts) |-> rows[firsts[k]].date]

\* .group_by(func.date(timestamp)).order_by(func.date(timestamp))
group_dates(rows) ==
    LET dates == {rows[i].date : i \in 1..Len(rows)}
    IN  [k \in 1..Cardinality(dates) |->
            CHOOSE d \in dates : Cardinality({x \in dates : x < d}) = k - 1]

\* func.avg(value), then round(r.avg): the mean rounded with ties to even
round_avg(vs) == RoundHalfEven(SumSeq(vs), Len(vs))

sql_min(vs) == CHOOSE m \in SeqRange(vs) : \A x \in SeqRange(vs) : m <= x

sql_max(vs) == CHOOSE m \in SeqRange(vs) : \A x \in SeqRange(vs) : x <= m

\* COUNT(DISTINCT value) in place of COUNT(id)
sql_count_distinct(vs) == Cardinality(SeqRange(vs))

\* func.count(GlucoseReading.id)
sql_count(vs) == Len(vs)

daily_summary(d, vs) ==
    [date |-> d,
     avg |-> round_avg(vs),
     min |-> sql_min(vs),
     max |-> sql_max(vs),
     count |-> sql_count(vs)]

get_glucose_daily(rows, start_dt, end_dt) ==
    LET results == in_window(rows, start_dt, end_dt)
        dates == group_dates(results)
    IN  [status |-> 200,
         body |-> [k \in 1..Len(dates) |->
                      daily_summary(dates[k], group_values(results, dates[k]))]]

DailyRows == [date : DailyDays, value : DailyValues]

DailyInit ==
    /\ daily_rows \in SeqsUpTo(DailyRows, MaxDailyReadings)
    /\ \E w \in DailyWindows : daily_start = w[1] /\ daily_end = w[2]
    /\ daily = NoResponse
    /\ daily_prev = NoResponse

DailyIdle ==
    /\ daily_rows = <<>>
    /\ daily_start = 1
    /\ daily_end = 1
    /\ daily = NoResponse
    /\ daily_prev = NoResponse

\* a handler that deletes the rows it has just reported
DailyRequestConsuming ==
    /\ daily' = get_glucose_daily(daily_rows, daily_start, daily_end)
    /\ daily_prev' = daily
    /\ daily_rows' = SelectSeq(daily_rows,
                        LAMBDA r : ~(daily_start <= r.date /\ r.date < daily_end))
    /\ UNCHANGED <<daily_start, daily_end>>

\* the handler only queries: no db.add, db.delete or db.commit
DailyRequest ==
    /\ daily' = get_glucose_daily(daily_rows, daily_start, daily_end)
    /\ daily_prev' = daily
    /\ UNCHANGED <<daily_rows, daily_start, daily_end>>

-----------------------------------------------------------------------------
(* GET /data/correlations and the Correlations page *)

\* one row kept per date, the last one stored: {str(r.date): r.value for r in rows}
glucose_by_date_last(rows) ==
    [d \in {rows[i].date : i \in 1..Len(rows)} |->
        LET vs == group_values(rows, d) IN vs[Len(vs)]]

\* glucose_by_date = {str(g.date): round(g.avg) for g in glucose_daily}
glucose_by_date(rows) ==
    [d \in {rows[i].date : i \in 1..Len(rows)} |-> round_avg(group_values(rows, d))]

\* the dates present in both series, ascending, with the two values
inner_join(xs, ys) ==
    LET dates == (DOMAIN xs) \cap (DOMAIN ys)
        nth(k) == CHOOSE d \in dates : Cardinality({e \in dates : e < d}) = k - 1
    IN  [k \in 1..Cardinality(dates) |->
            [date |-> nth(k), x |-> xs[nth(k)], y |-> ys[nth(k)]]]

SumX(points) == SumSeq([i \in 1..Len(points) |-> points[i].x])
SumY(points) == SumSeq([i \in 1..Len(points) |-> points[i].y])
SumXY(points) == SumSeq([i \in 1..Len(points) |-> points[i].x * points[i].y])
SumX2(points) == SumSeq([i \in 1..Len(points) |-> points[i].x * points[i].x])
SumY2(points) == SumSeq([i \in 1..Len(points) |-> points[i].y * points[i].y])

\* n * Sxy - Sx * Sy
CoMoment(points) == Len(points) * SumXY(points) - SumX(points) * SumY(points)
\* n * Sxx - Sx * Sx
XMoment(points) == Len(points) * SumX2(points) - SumX(points) * SumX(points)
\* n * Syy - Sy * Sy
YMoment(points) == Len(points) * SumY2(points) - SumY(points) * SumY(points)

\* the quotient taken whatever the denominator: 0/0 is NaN (den_sq = 0)
pearson_unguarded(points) ==
    IF Len(points) < 2 THEN None
    ELSE Some([num |-> CoMoment(points),
               den_sq |-> XMoment(points) * YMoment(points)])

\* the covariance normalised by n - 1 and the deviations by n:
\* r * n / (n - 1)
pearson_mixed_ddof(points) ==
    IF Len(points) < 2 \/ XMoment(points) * YMoment(points) = 0 THEN None
    ELSE Some([num |-> Len(points) * CoMoment(points),
               den_sq |-> (Len(points) - 1) * (Len(points) - 1)
                            * XMoment(points) * YMoment(points)])

\* r = (n Sxy - Sx Sy) / sqrt((n Sxx - Sx^2)(n Syy - Sy^2)), held as the
\* numerator and the square of the denominator; null with fewer than two
\* points or a zero denominator
pearson(points) ==
    IF Len(points) < 2 \/ XMoment(points) * YMoment(points) = 0 THEN None
    ELSE Some([num |-> CoMoment(points),
               den_sq |-> XMoment(points) * YMoment(points)])

get_correlations(rows, ys) ==
    LET points == inner_join(glucose_by_date(rows), ys)
    IN  [status |-> 200,
         xMetric |-> "avg_glucose",
         yMetric |-> "resting_hr",
         correlation |-> pearson(points),
         points |-> points]

\* a regression for any two points or more, vertical line or not
linearRegression_unguarded(points) ==
    IF Len(points) < 2 THEN None
    ELSE Some([slope_num |-> CoMoment(points),
               slope_den |-> XMoment(points),
               icpt_num |-> SumY(points) * XMoment(points)
                              - CoMoment(points) * SumX(points),
               icpt_den |-> Len(points) * XMoment(points)])

\* linearRegression: slope = slope_num / slope_den and
\* intercept = (sumY - slope * sumX) / n = icpt_num / icpt_den
linearRegression(points) ==
    IF Len(points) < 2 THEN None
    ELSE IF XMoment(points) = 0 THEN None
    ELSE Some([slope_num |-> CoMoment(points),
               slope_den |-> XMoment(points),
               icpt_num |-> SumY(points) * XMoment(points)
                              - CoMoment(points) * SumX(points),
               icpt_den |-> Len(points) * XMoment(points)])

MinX(points) ==
    CHOOSE m \in {points[i].x : i \in 1..Len(points)} :
        \A i \in 1..Len(points) : m <= points[i].x

MaxX(points) ==
    CHOOSE m \in {points[i].x : i \in 1..Len(points)} :
        \A i \in 1..Len(points) : points[i].x <= m

\* {x, y: reg.slope * x + reg.intercept}, y = y_num / y_den
\* over the intercept's denominator n * slope_den
TrendPoint(reg, n, x) ==
    [x |-> x,
     y_num |-> reg.slope_num * n * x + reg.icpt_num,
     y_den |-> reg.icpt_den]

\* useMemo(() => ..., [data])
trendLineData(d) ==
    IF d.status # 200 \/ Len(d.points) < 2 THEN <<>>
    ELSE LET reg == linearRegression(d.points)
         IN  IF reg = None THEN <<>>
             ELSE <<TrendPoint(reg[1], Len(d.points), MinX(d.points)),
                    TrendPoint(reg[1], Len(d.points), MaxX(d.points))>>

CorrRows == [date : CorrDays, value : CorrGlucoseValues]

CorrSeries == UNION {[D -> CorrYValues] : D \in SUBSET CorrDays}

NotRendered == <<[x |-> 0, y_num |-> 0, y_den |-> 0]>>

CorrInit ==
    /\ corr_glucose \in SeqsUpTo(CorrRows, MaxCorrReadings)
    /\ corr_y \in CorrSeries
    /\ data = NoResponse
    /\ trend = NotRendered

CorrIdle ==
    /\ corr_glucose = <<>>
    /\ corr_y = <<>>
    /\ data = NoResponse
    /\ trend = NotRendered

\* fetchCorrelation answered by get_correlations: setData(json), and the
\* render that follows recomputes trendLineData
FetchCorrelation ==
    /\ data' = get_correlations(corr_glucose, corr_y)
    /\ trend' = trendLineData(data')
    /\ UNCHANGED <<corr_glucose, corr_y>>

\* a render of the page with the data it holds
RenderTrendLine ==
    /\ trend' = trendLineData(data)
    /\ UNCHANGED <<corr_glucose, corr_y, data>>

-----------------------------------------------------------------------------
(* Overview page *)

\* the metric fields of OverviewResponse; the values a card shows are kept,
\* decimals in hundredths
HeartRateFields == {[resting_heart_rate |-> Some(v)] : v \in {62, 90}}
SleepFields ==
    {[overall_score |-> v, minutes_asleep |-> Some(425)] : v \in {None, Some(85)}}
ActivityFields ==
    {[steps |-> Some(v), active_zone_minutes |-> Some(30),
      calories_total |-> Some(2100)] : v \in {4000, 12000}}
Spo2Fields == {[avg_spo2 |-> Some(v)] : v \in {9625, 9400}}
HrvFields == {[daily_rmssd |-> Some(v)] : v \in {4225, 1200}}
BreathingRateFields == {[breathing_rate |-> Some(v)] : v \in {1450, 2500}}
SkinTemperatureFields == {[relative_temp |-> Some(v)] : v \in {-25, 150}}
Vo2MaxFields == {[vo2_max |-> Some(v)] : v \in {4500, 2875}}
StressFields == {[stress_score |-> Some(v)] : v \in {75, 30}}

Nullable(S) == {None} \cup {Some(f) : f \in S}

OverviewResponse ==
    [heartRate : Nullable(HeartRateFields),
     sleep : Nullable(SleepFields),
     activity : Nullable(ActivityFields),
     spo2 : Nullable(Spo2Fields),
     hrv : Nullable(HrvFields),
     breathingRate : Nullable(BreathingRateFields),
     skinTemperature : Nullable(SkinTemperatureFields),
     vo2Max : Nullable(Vo2MaxFields),
     stress : Nullable(StressFields)]

\* getHealthStatus(metric, value), value null or a number
getHealthStatus(metric, value) ==
    IF value = None THEN "neutral"
    ELSE LET v == value[1] IN
      CASE metric = "restingHR" ->
             IF v >= 40 /\ v <= 70 THEN "green"
             ELSE IF v > 70 /\ v <= 85 THEN "yellow" ELSE "red"
        [] metric = "sleepScore" ->
             IF v >= 80 THEN "green" ELSE IF v >= 60 THEN "yellow" ELSE "red"
        [] metric = "steps" ->
             IF v >= 10000 THEN "green" ELSE IF v >= 5000 THEN "yellow" ELSE "red"
        [] metric = "spo2" ->
             IF v >= 9500 THEN "green" ELSE IF v >= 9000 THEN "yellow" ELSE "red"
        [] metric = "hrv" ->
             IF v >= 3000 THEN "green" ELSE IF v >= 1500 THEN "yellow" ELSE "red"
        [] metric = "breathingRate" ->
             IF v >= 1200 /\ v <= 2000 THEN "green"
             ELSE IF v >= 1000 /\ v <= 2400 THEN "yellow" ELSE "red"
        [] metric = "skinTemp" ->
             IF Abs(v) <= 100 THEN "green"
             ELSE IF Abs(v) <= 200 THEN "yellow" ELSE "red"
        [] metric = "vo2max" ->
             IF v >= 4000 THEN "green" ELSE IF v >= 3000 THEN "yellow" ELSE "red"
        [] metric = "stress" ->
             IF v >= 70 THEN "green" ELSE IF v >= 40 THEN "yellow" ELSE "red"
        [] metric = "activeZone" ->
             IF v >= 22 THEN "green" ELSE IF v >= 10 THEN "yellow" ELSE "red"
        [] metric = "calories" ->
             IF v >= 1800 THEN "green" ELSE IF v >= 1200 THEN "yellow" ELSE "red"
        [] OTHER -> "neutral"

\* value={x}: the number as it is
AsNumber(value) == IF value = None THEN None ELSE Some(<<"number", value[1]>>)

\* x != null ? x.toLocaleString() : null
toLocaleString(value) == IF value = None THEN None ELSE Some(<<"locale", value[1]>>)

\* x != null ? x.toFixed(1) : null, hundredths to tenths, a half away from zero
toFixed1(value) ==
    IF value = None THEN None
    ELSE Some(<<"fixed", IF value[1] >= 0 THEN (value[1] + 5) \div 10
                         ELSE -((5 - value[1]) \div 10)>>)

\* `${x >= 0 ? "+" : ""}${x.toFixed(1)}`
toSignedFixed1(value) ==
    IF value = None THEN None
    ELSE Some(<<IF value[1] >= 0 THEN "+" ELSE "", toFixed1(value)[1][2]>>)

\* MetricCard: the value or "--", and the status colour
MetricCard(value, statusKey, rawValue) ==
    [value |-> value,
     hasValue |-> value # None,
     status |-> getHealthStatus(statusKey, rawValue)]

\* data?.<metric>?.<field> ?? null
Extract(d, metric, field) ==
    IF d = None THEN None
    ELSE IF d[1][metric] = None THEN None
    ELSE d[1][metric][1][field]

restingHR(d) == Extract(d, "heartRate", "resting_heart_rate")
sleepScore(d) == Extract(d, "sleep", "overall_score")
steps(d) == Extract(d, "activity", "steps")
avgSpo2(d) == Extract(d, "spo2", "avg_spo2")
dailyRmssd(d) == Extract(d, "hrv", "daily_rmssd")
breathingRate(d) == Extract(d, "breathingRate", "breathing_rate")
skinTemp(d) == Extract(d, "skinTemperature", "relative_temp")
vo2Max(d) == Extract(d, "vo2Max", "vo2_max")
stressScore(d) == Extract(d, "stress", "stress_score")
activeZoneMins(d) == Extract(d, "activity", "active_zone_minutes")
caloriesTotal(d) == Extract(d, "activity", "calories_total")

\* the grid shown only when every metric has data
hasAllData(d) ==
    /\ d # None
    /\ \A m \in DOMAIN d[1] : d[1][m] # None

\* data && (data.heartRate || data.sleep || ... || data.stress)
hasAnyData(d) ==
    /\ d # None
    /\ \E m \in DOMAIN d[1] : d[1][m] # None

\* the metric cards grid
Cards(d) ==
    [restingHR |-> MetricCard(AsNumber(restingHR(d)), "restingHR", restingHR(d)),
     sleepScore |-> MetricCard(AsNumber(sleepScore(d)), "sleepScore", sleepScore(d)),
     steps |-> MetricCard(toLocaleString(steps(d)), "steps", steps(d)),
     spo2 |-> MetricCard(toFixed1(avgSpo2(d)), "spo2", avgSpo2(d)),
     hrv |-> MetricCard(toFixed1(dailyRmssd(d)), "hrv", dailyRmssd(d)),
     breathingRate |->
        MetricCard(toFixed1(breathingRate(d)), "breathingRate", breathingRate(d)),
     skinTemp |-> MetricCard(toSignedFixed1(skinTemp(d)), "skinTemp", skinTemp(d)),
     vo2max |-> MetricCard(toFixed1(vo2Max(d)), "vo2max", vo2Max(d)),
     stress |-> MetricCard(AsNumber(stressScore(d)), "stress", stressScore(d)),
     activeZone |->
        MetricCard(AsNumber(activeZoneMins(d)), "activeZone", activeZoneMins(d)),
     calories |->
        MetricCard(toLocaleString(caloriesTotal(d)), "calories", caloriesTotal(d))]

\* the page body: loading, error, empty state or the cards grid
OverviewView(d, loading, error) ==
    IF loading THEN [kind |-> "loading"]
    ELSE IF error # None THEN [kind |-> "error", message |-> error]
    ELSE IF ~hasAnyData(d) THEN [kind |-> "empty"]
    ELSE [kind |-> "cards", cards |-> Cards(d)]

OverviewFailures ==
    {[ok |-> FALSE, body |-> b, statusText |-> "Internal Server Error"] :
        b \in {"", "Database error"}}

OverviewInit ==
    /\ ov_response \in {[ok |-> TRUE, json |-> j] : j \in OverviewResponse}
                         \cup OverviewFailures
    /\ ov_data = None
    /\ ov_loading = TRUE
    /\ ov_error = None
    /\ ov_view = OverviewView(None, TRUE, None)

OverviewIdle ==
    /\ ov_response = [ok |-> FALSE, body |-> "", statusText |-> ""]
    /\ ov_data = None
    /\ ov_loading = TRUE
    /\ ov_error = None
    /\ ov_view = [kind |-> "loading"]

\* fetchOverview(date) from its first statement to its finally, and the render
\* of the state it leaves
fetchOverview ==
    /\ IF ~ov_response.ok
       THEN /\ ov_error' = IF ov_response.body # "" THEN <<ov_response.body>>
                           ELSE <<"Request failed: ", ov_response.statusText>>
            /\ ov_data' = None
       ELSE /\ ov_error' = None
            /\ ov_data' = Some(ov_response.json)
    /\ ov_loading' = FALSE
    /\ ov_view' = OverviewView(ov_data', ov_loading', ov_error')
    /\ UNCHANGED ov_response

-----------------------------------------------------------------------------
(* API client: request *)

BASE_URL == "http://localhost:8000/api"

RequestPaths == {"/data/overview?date=2024-06-15", "/data/sleep?start=a&end=b"}

\* Response.ok
ok(response) == response.status \in 200..299

\* what fetch can resolve with
Responses ==
    [status : {200, 204, 404, 500},
     statusText : {"", "Not Found"},
     body : {"", "{}", "Server Error"}]

\* response.json(): the parsed body, or a SyntaxError for a body that is not JSON
json(response) ==
    IF response.body = "{}" THEN [kind |-> "resolved", value |-> [type |-> "object"]]
    ELSE [kind |-> "rejected", error |-> [name |-> "SyntaxError"]]

\* the message always taken from the status text
message_from_status(response) == <<"Request failed: ", response.statusText>>

\* body || `Request failed: ${response.statusText}`
message(response) ==
    IF response.body # "" THEN <<response.body>>
    ELSE <<"Request failed: ", response.statusText>>

\* new ApiError(message, status)
ApiError(msg, status) == [name |-> "ApiError", message |-> msg, status |-> status]

Pending == [kind |-> "pending"]

RequestInit ==
    /\ req_count = 0
    /\ req_path = ""
    /\ req_pc = "idle"
    /\ req_response = None
    /\ req_result = Pending
    /\ fetch_log = <<>>

RequestIdle ==
    /\ req_count = 0
    /\ req_path = ""
    /\ req_pc = "idle"
    /\ req_response = None
    /\ req_result = Pending
    /\ fetch_log = <<>>

\* request(path) up to its first await: the url is built and fetch is called
request ==
    /\ req_pc \in {"idle", "done"}
    /\ req_count < MaxRequests
    /\ \E path \in RequestPaths :
          /\ req_path' = path
          /\ fetch_log' = Append(fetch_log,
                                 [call |-> req_count + 1, url |-> <<BASE_URL, path>>])
    /\ req_count' = req_count + 1
    /\ req_pc' = "fetch"
    /\ req_response' = None
    /\ req_result' = Pending

\* fetch rejects (no connection): the rejection passes through request
fetch_rejects ==
    /\ req_pc = "fetch"
    /\ req_pc' = "done"
    /\ req_result' = [kind |-> "rejected", error |-> [name |-> "TypeError"]]
    /\ UNCHANGED <<req_count, req_path, req_response, fetch_log>>

\* fetch resolves: if (!response.ok) await response.text(), else response.json()
fetch_resolves ==
    /\ req_pc = "fetch"
    /\ \E response \in Responses :
          /\ req_response' = Some(response)
          /\ req_pc' = IF ~ok(response) THEN "text" ELSE "json"
    /\ UNCHANGED <<req_count, req_path, req_result, fetch_log>>

\* response.text() resolves: throw new ApiError(...)
text_resolves ==
    /\ req_pc = "text"
    /\ req_pc' = "done"
    /\ req_result' = [kind |-> "rejected",
                      error |-> ApiError(message(req_response[1]),
                                         req_response[1].status)]
    /\ UNCHANGED <<req_count, req_path, req_response, fetch_log>>

\* return response.json()
json_settles ==
    /\ req_pc = "json"
    /\ req_pc' = "done"
    /\ req_result' = json(req_response[1])
    /\ UNCHANGED <<req_count, req_path, req_response, fetch_log>>

-----------------------------------------------------------------------------
(* DateRangePicker *)

\* dates are day numbers; a Date is a day and a time of day; a year is taken
\* as 365 days
DAYS_PER_YEAR == 365

PickerClock == [day : {2000, 2001}, time : {"09:30", "23:59"}]
PickerDays == {1955, 1993, 2000}
MetricStartDates == {None, Some(1200), Some(1500)}

PRESETS ==
    <<[label |-> "Today", days |-> Some(0), years |-> None, allTime |-> FALSE],
      [label |-> "7d", days |-> Some(7), years |-> None, allTime |-> FALSE],
      [label |-> "30d", days |-> Some(30), years |-> None, allTime |-> FALSE],
      [label |-> "90d", days |-> Some(90), years |-> None, allTime |-> FALSE],
      [label |-> "1y", days |-> None, years |-> Some(1), allTime |-> FALSE],
      [label |-> "All", days |-> None, years |-> None, allTime |-> TRUE]>>

\* format(date, "yyyy-MM-dd"): the day, the time of day dropped
format(date) == date.day

\* the day count added instead of subtracted
addDays(date, amount) == [date EXCEPT !.day = date.day + amount]

subDays(date, amount) == [date EXCEPT !.day = date.day - amount]

subYears(date, amount) == [date EXCEPT !.day = date.day - DAYS_PER_YEAR * amount]

\* what fetch(`${API_BASE}/api/metrics`).then(res => res.json()) settles with:
\* a rejection, or a body with the metrics' startDate values
MetricsResponses ==
    {[kind |-> "rejected"]} \cup
    {[kind |-> "json", metrics |-> ms] : ms \in SeqsUpTo(MetricStartDates, MaxMetrics)}

\* dates.sort(); dates[0]
earliest(metrics) ==
    LET dates == {metrics[i][1] : i \in {k \in 1..Len(metrics) : metrics[k] # None}}
    IN  IF dates = {} THEN None
        ELSE Some(CHOOSE d \in dates : \A e \in dates : d <= e)

PickerInit ==
    /\ dp_now \in PickerClock
    /\ dp_startDate \in PickerDays
    /\ dp_endDate \in PickerDays
    /\ dp_activePreset = None
    /\ dp_earliestDate = None
    /\ dp_metrics = [kind |-> "pending"]
    /\ dp_onChange = <<>>
    /\ dp_last = [kind |-> "mount"]

PickerIdle ==
    /\ dp_now = [day |-> 0, time |-> ""]
    /\ dp_startDate = 0
    /\ dp_endDate = 0
    /\ dp_activePreset = None
    /\ dp_earliestDate = None
    /\ dp_metrics = [kind |-> "unmounted"]
    /\ dp_onChange = <<>>
    /\ dp_last = [kind |-> "mount"]

\* the mount effect's fetch settles: .then sets the earliest startDate when
\* there is one, .catch sets five years ago
MetricsSettle ==
    /\ dp_metrics.kind = "pending"
    /\ \E response \in MetricsResponses :
          /\ dp_metrics' = response
          /\ dp_earliestDate' =
                IF response.kind = "rejected"
                THEN Some(format(subYears(dp_now, 5)))
                ELSE IF earliest(response.metrics) # None
                     THEN earliest(response.metrics)
                     ELSE dp_earliestDate
    /\ UNCHANGED <<dp_now, dp_startDate, dp_endDate, dp_activePreset,
                   dp_onChange, dp_last>>

\* the range a preset click passes to onChange
presetRange(preset, end, earliestDate) ==
    IF preset.allTime /\ earliestDate # None
    THEN <<earliestDate[1], format(end)>>
    ELSE LET start ==
               IF preset.years # None /\ preset.years # Some(0)
               THEN subYears(end, preset.years[1])
               ELSE subDays(end, IF preset.days # None THEN preset.days[1] ELSE 0)
         IN  <<format(start), format(end)>>

\* applyPreset(preset); onChange is the page's handler, which stores the range
applyPreset ==
    \E i \in 1..Len(PRESETS) :
        LET range == presetRange(PRESETS[i], dp_now, dp_earliestDate)
        IN  /\ dp_activePreset' = Some(PRESETS[i].label)
            /\ dp_onChange' = <<range>>
            /\ dp_startDate' = range[1]
            /\ dp_endDate' = range[2]
            /\ dp_last' = [kind |-> "preset", label |-> PRESETS[i].label]
            /\ UNCHANGED <<dp_now, dp_earliestDate, dp_metrics>>

\* a start edit that leaves the active preset highlighted
handleStartChange_sticky ==
    \E value \in PickerDays :
        /\ dp_onChange' = <<<<value, dp_endDate>>>>
        /\ dp_startDate' = value
        /\ dp_last' = [kind |-> "edit", bound |-> "start", value |-> value,
                       other |-> dp_endDate]
        /\ UNCHANGED <<dp_now, dp_endDate, dp_activePreset, dp_earliestDate,
                       dp_metrics>>

handleStartChange ==
    \E value \in PickerDays :
        /\ dp_activePreset' = None
        /\ dp_onChange' = <<<<value, dp_endDate>>>>
        /\ dp_startDate' = value
        /\ dp_last' = [kind |-> "edit", bound |-> "start", value |-> value,
                       other |-> dp_endDate]
        /\ UNCHANGED <<dp_now, dp_endDate, dp_earliestDate, dp_metrics>>

handleEndChange ==
    \E value \in PickerDays :
        /\ dp_activePreset' = None
        /\ dp_onChange' = <<<<dp_startDate, value>>>>
        /\ dp_endDate' = value
        /\ dp_last' = [kind |-> "edit", bound |-> "end", value |-> value,
                       other |-> dp_startDate]
        /\ UNCHANGED <<dp_now, dp_startDate, dp_earliestDate, dp_metrics>>

-----------------------------------------------------------------------------
(* X-axis ticks: utils/dateFormat.ts *)

\* Math.floor(a / b) for a >= 0, b > 0
Floor(a, b) == a \div b

\* Math.floor(dataLength / 12) whatever the length
calculateTickInterval_twelfths(dataLength) == Floor(dataLength, 12)

calculateTickInterval(dataLength) ==
    IF dataLength <= 12 THEN 0
    ELSE IF dataLength <= 30 THEN Floor(dataLength, 10)
    ELSE IF dataLength <= 90 THEN Floor(dataLength, 10)
    ELSE IF dataLength <= 365 THEN Floor(dataLength, 12)
    ELSE Floor(dataLength, 12)

TickInit ==
    /\ tick_dataLength \in 0..MaxDataLength
    /\ tick_interval = None

TickIdle ==
    /\ tick_dataLength = 0
    /\ tick_interval = None

\* a chart computes the interval of its X axis
TickIntervalCall ==
    /\ tick_interval' = Some(calculateTickInterval(tick_dataLength))
    /\ UNCHANGED tick_dataLength

-----------------------------------------------------------------------------
(* Overview page: date navigation and its requests *)

\* character codes of "-" and "0"
DASH == 45
ZERO == 48

IsLeap(y) == (y % 4 = 0 /\ y % 100 # 0) \/ y % 400 = 0

DaysInMonth(y, m) ==
    IF m \in {4, 6, 9, 11} THEN 30
    ELSE IF m = 2 THEN (IF IsLeap(y) THEN 29 ELSE 28)
    ELSE 31

\* d.setDate(d.getDate() + 1)
NextDay(t) ==
    IF t.d < DaysInMonth(t.y, t.m) THEN [t EXCEPT !.d = t.d + 1]
    ELSE IF t.m < 12 THEN [y |-> t.y, m |-> t.m + 1, d |-> 1]
    ELSE [y |-> t.y + 1, m |-> 1, d |-> 1]

\* d.setDate(d.getDate() - 1)
PrevDay(t) ==
    IF t.d > 1 THEN [t EXCEPT !.d = t.d - 1]
    ELSE IF t.m > 1 THEN [y |-> t.y, m |-> t.m - 1, d |-> DaysInMonth(t.y, t.m - 1)]
    ELSE [y |-> t.y - 1, m |-> 12, d |-> 31]

\* String(n) for 0 <= n < 10000, as character codes
RECURSIVE Digits(_)
Digits(n) == IF n < 10 THEN <<ZERO + n>> ELSE Append(Digits(n \div 10), ZERO + (n % 10))

\* String(n).padStart(2, "0")
padStart2(n) == IF n < 10 THEN <<ZERO, ZERO + n>> ELSE Digits(n)

\* month and day written without padding
formatDate_unpadded(t) == Digits(t.y) \o <<DASH>> \o Digits(t.m) \o <<DASH>> \o Digits(t.d)

\* formatDate(d): `${yyyy}-${mm}-${dd}`
formatDate(t) ==
    Digits(t.y) \o <<DASH>> \o padStart2(t.m) \o <<DASH>> \o padStart2(t.d)

RECURSIVE Number(_)
Number(cs) ==
    IF cs = <<>> THEN 0
    ELSE 10 * Number(SubSeq(cs, 1, Len(cs) - 1)) + (cs[Len(cs)] - ZERO)

\* new Date(date + "T12:00:00"): the calendar day the string names
parseDate(str) ==
    LET dashes == {i \in 1..Len(str) : str[i] = DASH}
        first == CHOOSE i \in dashes : \A j \in dashes : i <= j
        second == CHOOSE i \in dashes : \A j \in dashes : j <= i
    IN  [y |-> Number(SubSeq(str, 1, first - 1)),
         m |-> Number(SubSeq(str, first + 1, second - 1)),
         d |-> Number(SubSeq(str, second + 1, Len(str)))]

\* a <= b on strings: by the first differing character, a prefix first
StringLeq(a, b) ==
    \/ a = b
    \/ \E i \in 1..Len(b) :
          /\ \A j \in 1..(i - 1) : j <= Len(a) /\ a[j] = b[j]
          /\ i > Len(a) \/ a[i] < b[i]

NavTodays ==
    {[y |-> 2024, m |-> 9, d |-> 30], [y |-> 2024, m |-> 1, d |-> 1],
     [y |-> 2024, m |-> 3, d |-> 1]}

NavInit ==
    /\ nav_today \in NavTodays
    /\ nav_date = formatDate(nav_today)
    /\ nav_inflight = {[id |-> 1, date |-> formatDate(nav_today)]}
    /\ nav_issued = 1
    /\ nav_data = None
    /\ nav_loading = TRUE
    /\ nav_error = None
    /\ nav_applied = [id |-> 0, date |-> <<>>]
    /\ nav_last = [kind |-> "mount"]

NavIdle ==
    /\ nav_today = [y |-> 0, m |-> 0, d |-> 0]
    /\ nav_date = <<>>
    /\ nav_inflight = {}
    /\ nav_issued = 0
    /\ nav_data = None
    /\ nav_loading = TRUE
    /\ nav_error = None
    /\ nav_applied = [id |-> 0, date |-> <<>>]
    /\ nav_last = [kind |-> "mount"]

\* the effect on [date]: fetchOverview(date) up to its await
StartFetchOverview(dateStr) ==
    /\ nav_loading' = TRUE
    /\ nav_error' = None
    /\ nav_issued' = nav_issued + 1
    /\ nav_inflight' = nav_inflight \cup {[id |-> nav_issued + 1, date |-> dateStr]}

\* shiftDate(days) for the previous (-1) and next (+1) buttons
shiftDate(days) ==
    LET d == parseDate(nav_date)
        newDate == formatDate(IF days = 1 THEN NextDay(d) ELSE PrevDay(d))
    IN  /\ nav_issued < MaxNavRequests
        /\ nav_last' = [kind |-> "shift", days |-> days, from |-> d, today |-> nav_today]
        /\ IF StringLeq(newDate, formatDate(nav_today))
           THEN /\ nav_date' = newDate
                /\ StartFetchOverview(newDate)
           ELSE UNCHANGED <<nav_date, nav_loading, nav_error, nav_issued, nav_inflight>>
        /\ UNCHANGED <<nav_today, nav_data, nav_applied>>

\* a response arrives: setData(json), or setError and setData(null); then
\* setLoading(false)
fetchOverviewSettles ==
    \E r \in nav_inflight :
        /\ nav_inflight' = nav_inflight \ {r}
        /\ \/ nav_data' = Some(r.date) /\ UNCHANGED nav_error
           \/ nav_data' = None /\ nav_error' = Some("Request failed")
        /\ nav_loading' = FALSE
        /\ nav_applied' = r
        /\ UNCHANGED <<nav_today, nav_date, nav_issued, nav_last>>

\* the clock passes midnight, once
Midnight ==
    /\ nav_today \in NavTodays
    /\ nav_today' = NextDay(nav_today)
    /\ UNCHANGED <<nav_date, nav_inflight, nav_issued, nav_data, nav_loading,
                   nav_error, nav_applied, nav_last>>

-----------------------------------------------------------------------------
(* Glucose and Heart Rate pages: readings of the selected day *)

SelectableDays == {1, 2}

\* what a readings request can be answered with: a failure, a body without
\* readings, or a list of readings
ReadingsResponses ==
    {[ok |-> FALSE, readings |-> None], [ok |-> TRUE, readings |-> None]} \cup
    {[ok |-> TRUE, readings |-> Some(rs)] : rs \in {<<>>, <<95>>, <<95, 140>>}}

\* json.readings ?? [] on success, [] on failure
ReadingsOf(response) ==
    IF response.ok /\ response.readings # None THEN response.readings[1] ELSE <<>>

DayInit ==
    /\ selectedDay \in SelectableDays
    /\ day_requests = {[id |-> 1, day |-> selectedDay, cancelled |-> FALSE]}
    /\ day_issued = 1
    /\ day_readings = <<>>
    /\ day_loading = TRUE
    /\ day_step = [kind |-> "mount"]

DayIdle ==
    /\ selectedDay = 0
    /\ day_requests = {}
    /\ day_issued = 0
    /\ day_readings = <<>>
    /\ day_loading = FALSE
    /\ day_step = [kind |-> "mount"]

\* setSelectedDay(day) with another day: the effect's cleanup sets cancelled
\* on the run before, and the effect runs fetchReadings up to its await
SelectDay ==
    \E day \in SelectableDays \ {selectedDay} :
        /\ day_issued < MaxDayRequests
        /\ selectedDay' = day
        /\ day_requests' =
              {[r EXCEPT !.cancelled = TRUE] : r \in day_requests}
                  \cup {[id |-> day_issued + 1, day |-> day, cancelled |-> FALSE]}
        /\ day_issued' = day_issued + 1
        /\ day_loading' = TRUE
        /\ day_step' = [kind |-> "select"]
        /\ UNCHANGED day_readings

\* the response written whether or not the run was cancelled
ReadingsArrive_unguarded ==
    \E r \in day_requests, response \in ReadingsResponses :
        /\ day_requests' = day_requests \ {r}
        /\ day_readings' = ReadingsOf(response)
        /\ day_loading' = FALSE
        /\ day_step' = [kind |-> "arrive", request |-> r, response |-> response,
                        readings_before |-> day_readings,
                        loading_before |-> day_loading]
        /\ UNCHANGED <<selectedDay, day_issued>>

\* fetchReadings after its await: try / catch / finally, each under
\* if (!cancelled)
ReadingsArrive ==
    \E r \in day_requests, response \in ReadingsResponses :
        /\ day_requests' = day_requests \ {r}
        /\ IF ~r.cancelled
           THEN /\ day_readings' = ReadingsOf(response)
                /\ day_loading' = FALSE
           ELSE UNCHANGED <<day_readings, day_loading>>
        /\ day_step' = [kind |-> "arrive", request |-> r, response |-> response,
                        readings_before |-> day_readings,
                        loading_before |-> day_loading]
        /\ UNCHANGED <<selectedDay, day_issued>>

-----------------------------------------------------------------------------
(* Activity page: the activity fetch effect *)

ActivityRanges == {"30d", "7d", "90d"}

\* what the activity fetch is answered with: a body with or without data,
\* or a status that is not ok
ActivityResponses ==
    {[ok |-> FALSE, status |-> 500, data |-> None], [ok |-> TRUE, status |-> 200, data |-> None]}
        \cup {[ok |-> TRUE, status |-> 200, data |-> Some(rows)] :
                 rows \in {<<>>, <<8000>>}}

ActivityInit ==
    /\ act_range = "30d"
    /\ act_requests = {[id |-> 1, range |-> "30d", aborted |-> FALSE]}
    /\ act_issued = 1
    /\ act_data = <<>>
    /\ act_loading = TRUE
    /\ act_error = ""
    /\ act_step = [kind |-> "mount"]

ActivityIdle ==
    /\ act_range = ""
    /\ act_requests = {}
    /\ act_issued = 0
    /\ act_data = <<>>
    /\ act_loading = FALSE
    /\ act_error = ""
    /\ act_step = [kind |-> "mount"]

\* handleDateChange with another range: the cleanup aborts the fetch of the
\* run before, and the effect sets loading, clears the error and fetches
ActivityRangeChange ==
    \E range \in ActivityRanges \ {act_range} :
        /\ act_issued < MaxActivityRequests
        /\ act_range' = range
        /\ act_requests' =
              {[r EXCEPT !.aborted = TRUE] : r \in act_requests}
                  \cup {[id |-> act_issued + 1, range |-> range, aborted |-> FALSE]}
        /\ act_issued' = act_issued + 1
        /\ act_loading' = TRUE
        /\ act_error' = ""
        /\ act_step' = [kind |-> "change"]
        /\ UNCHANGED act_data

\* the promise chain of a fetch runs: .then / .then / .catch / .finally
ActivityFetchSettles ==
    \E r \in act_requests :
        /\ act_requests' = act_requests \ {r}
        /\ \/ /\ r.aborted
              /\ UNCHANGED <<act_data, act_error>>
           \/ /\ ~r.aborted
              /\ \E response \in ActivityResponses :
                    IF response.ok
                    THEN /\ act_data' = (IF response.data # None
                                         THEN response.data[1] ELSE <<>>)
                         /\ UNCHANGED act_error
                    ELSE /\ act_error' = "HTTP 500"
                         /\ UNCHANGED act_data
        /\ act_loading' = FALSE
        /\ act_step' = [kind |-> "settle", request |-> r, error_before |-> act_error]
        /\ UNCHANGED <<act_range, act_issued>>

-----------------------------------------------------------------------------
(* Settings page: export upload *)

\* file names, one character a piece
UploadFiles ==
    {<<"a", ".", "z", "i", "p">>, <<"a", ".", "t", "x", "t">>,
     <<"a", ".", "Z", "I", "P">>, <<"z", "i", "p">>}

\* name.endsWith(".zip")
endsWithZip(name) ==
    /\ Len(name) >= 4
    /\ SubSeq(name, Len(name) - 3, Len(name)) = <<".", "z", "i", "p">>

\* what the load event finds in the XMLHttpRequest
UploadLoads ==
    {[status |-> 200, responseText |-> t] :
        t \in {"{\"summary\":{\"sleep\":3}}", "{}", "<html>"}}
    \cup {[status |-> 500, responseText |-> t] : t \in {"", "Import failed"}}

\* JSON.parse(xhr.responseText): the value, or null for a SyntaxError thrown
JSONparse(text) ==
    IF text = "{\"summary\":{\"sleep\":3}}" THEN Some([summary |-> Some(<<3>>)])
    ELSE IF text = "{}" THEN Some([summary |-> None])
    ELSE None

SettingsInit ==
    /\ up_uploads = <<>>
    /\ uploading = FALSE
    /\ uploadResult = None
    /\ uploadError = None

SettingsIdle ==
    /\ up_uploads = <<>>
    /\ uploading = FALSE
    /\ uploadResult = None
    /\ uploadError = None

\* handleFile(file) up to its await, reached from handleDrop and
\* handleFileSelect; uploadExport up to xhr.send
handleFile ==
    \E file \in UploadFiles :
        IF ~endsWithZip(file)
        THEN /\ uploadError' = Some("Please upload a .zip file")
             /\ UNCHANGED <<up_uploads, uploading, uploadResult>>
        ELSE /\ Len(up_uploads) < MaxUploads
             /\ uploading' = TRUE
             /\ uploadResult' = None
             /\ uploadError' = None
             /\ up_uploads' = Append(up_uploads,
                    [file |-> file, xhr |-> "sent", promise |-> "pending",
                     status |-> 0])

\* the rest of handleFile once uploadExport has resolved with result
handleFileResolved(result) ==
    /\ IF result.summary # None
       THEN /\ uploadResult' = Some(<<"Imported ", SumSeq(result.summary[1]),
                                      " records successfully.">>)
            /\ UNCHANGED uploadError
       ELSE /\ uploadError' = Some("Cannot convert undefined or null to object")
            /\ UNCHANGED uploadResult
    /\ uploading' = FALSE

\* the rest of handleFile once uploadExport has rejected with message
handleFileRejected(msg) ==
    /\ uploadError' = Some(msg)
    /\ uploading' = FALSE
    /\ UNCHANGED uploadResult

\* xhr "load" listener, and handleFile resuming when the promise settles
UploadLoad ==
    \E i \in 1..Len(up_uploads), load \in UploadLoads :
        /\ up_uploads[i].xhr = "sent"
        /\ IF load.status >= 200 /\ load.status < 300
           THEN IF JSONparse(load.responseText) # None
                THEN /\ up_uploads' = [up_uploads EXCEPT
                            ![i] = [@ EXCEPT !.xhr = "done", !.promise = "resolved",
                                             !.status = load.status]]
                     /\ handleFileResolved(JSONparse(load.responseText)[1])
                ELSE /\ up_uploads' = [up_uploads EXCEPT
                            ![i] = [@ EXCEPT !.xhr = "done", !.status = load.status]]
                     /\ UNCHANGED <<uploading, uploadResult, uploadError>>
           ELSE /\ up_uploads' = [up_uploads EXCEPT
                       ![i] = [@ EXCEPT !.xhr = "done", !.promise = "rejected",
                                        !.status = load.status]]
                /\ handleFileRejected(IF load.responseText # ""
                                      THEN load.responseText ELSE "Upload failed")

\* xhr "error" listener, and handleFile resuming
UploadNetworkError ==
    \E i \in 1..Len(up_uploads) :
        /\ up_uploads[i].xhr = "sent"
        /\ up_uploads' = [up_uploads EXCEPT
               ![i] = [@ EXCEPT !.xhr = "done", !.promise = "rejected"]]
        /\ handleFileRejected("Network error during upload")

-----------------------------------------------------------------------------
(* Specifications *)

InitTIR == TirInit /\ AgpIdle /\ DailyIdle /\ CorrIdle /\ OverviewIdle /\ RequestIdle /\ PickerIdle /\ TickIdle /\ NavIdle /\ DayIdle /\ ActivityIdle /\ SettingsIdle

NextTIR == TimeInRangeRequest /\ UNCHANGED <<agpVars, dailyVars, corrVars, overviewVars, requestVars, pickerVars, tickVars, navVars, dayVars, activityVars, settingsVars>>

SpecTIR == InitTIR /\ [][NextTIR]_vars

InitAGP == AgpInit /\ TirIdle /\ DailyIdle /\ CorrIdle /\ OverviewIdle /\ RequestIdle /\ PickerIdle /\ TickIdle /\ NavIdle /\ DayIdle /\ ActivityIdle /\ SettingsIdle

NextAGP == AgpRequest /\ UNCHANGED <<tirVars, dailyVars, corrVars, overviewVars, requestVars, pickerVars, tickVars, navVars, dayVars, activityVars, settingsVars>>

SpecAGP == InitAGP /\ [][NextAGP]_vars

InitDaily == DailyInit /\ TirIdle /\ AgpIdle /\ CorrIdle /\ OverviewIdle /\ RequestIdle /\ PickerIdle /\ TickIdle /\ NavIdle /\ DayIdle /\ ActivityIdle /\ SettingsIdle

NextDaily == DailyRequest /\ UNCHANGED <<tirVars, agpVars, corrVars, overviewVars, requestVars, pickerVars, tickVars, navVars, dayVars, activityVars, settingsVars>>

SpecDaily == InitDaily /\ [][NextDaily]_vars

InitCorr == CorrInit /\ TirIdle /\ AgpIdle /\ DailyIdle /\ OverviewIdle /\ RequestIdle /\ PickerIdle /\ TickIdle /\ NavIdle /\ DayIdle /\ ActivityIdle /\ SettingsIdle

NextCorr ==
    \/ FetchCorrelation /\ UNCHANGED <<tirVars, agpVars, dailyVars, overviewVars, requestVars, pickerVars, tickVars, navVars, dayVars, activityVars, settingsVars>>
    \/ RenderTrendLine /\ UNCHANGED <<tirVars, agpVars, dailyVars, overviewVars, requestVars, pickerVars, tickVars, navVars, dayVars, activityVars, settingsVars>>

SpecCorr == InitCorr /\ [][NextCorr]_vars

InitOverview == OverviewInit /\ TirIdle /\ AgpIdle /\ DailyIdle /\ CorrIdle /\ RequestIdle /\ PickerIdle /\ TickIdle /\ NavIdle /\ DayIdle /\ ActivityIdle /\ SettingsIdle

NextOverview == fetchOverview /\ UNCHANGED <<tirVars, agpVars, dailyVars, corrVars, requestVars, pickerVars, tickVars, navVars, dayVars, activityVars, settingsVars>>

SpecOverview == InitOverview /\ [][NextOverview]_vars

InitRequest ==
    RequestInit /\ TirIdle /\ AgpIdle /\ DailyIdle /\ CorrIdle /\ OverviewIdle /\ PickerIdle /\ TickIdle /\ NavIdle /\ DayIdle /\ ActivityIdle /\ SettingsIdle

NextRequest ==
    \/ request /\ UNCHANGED <<tirVars, agpVars, dailyVars, corrVars, overviewVars, pickerVars, tickVars, navVars, dayVars, activityVars, settingsVars>>
    \/ fetch_rejects /\ UNCHANGED <<tirVars, agpVars, dailyVars, corrVars, overviewVars, pickerVars, tickVars, navVars, dayVars, activityVars, settingsVars>>
    \/ fetch_resolves /\ UNCHANGED <<tirVars, agpVars, dailyVars, corrVars, overviewVars, pickerVars, tickVars, navVars, dayVars, activityVars, settingsVars>>
    \/ text_resolves /\ UNCHANGED <<tirVars, agpVars, dailyVars, corrVars, overviewVars, pickerVars, tickVars, navVars, dayVars, activityVars, settingsVars>>
    \/ json_settles /\ UNCHANGED <<tirVars, agpVars, dailyVars, corrVars, overviewVars, pickerVars, tickVars, navVars, dayVars, activityVars, settingsVars>>

SpecRequest == InitRequest /\ [][NextRequest]_vars

othersOfPicker == <<tirVars, agpVars, dailyVars, corrVars, overviewVars, requestVars, tickVars, navVars, dayVars, activityVars, settingsVars>>

InitPicker ==
    /\ PickerInit
    /\ TirIdle /\ AgpIdle /\ DailyIdle /\ CorrIdle /\ OverviewIdle /\ RequestIdle /\ TickIdle /\ NavIdle /\ DayIdle /\ ActivityIdle /\ SettingsIdle

NextPicker ==
    \/ MetricsSettle /\ UNCHANGED othersOfPicker
    \/ applyPreset /\ UNCHANGED othersOfPicker
    \/ handleStartChange /\ UNCHANGED othersOfPicker
    \/ handleEndChange /\ UNCHANGED othersOfPicker

SpecPicker == InitPicker /\ [][NextPicker]_vars

othersOfTick ==
    <<tirVars, agpVars, dailyVars, corrVars, overviewVars, requestVars, pickerVars, navVars, dayVars, activityVars, settingsVars>>

InitTick ==
    /\ TickInit
    /\ TirIdle /\ AgpIdle /\ DailyIdle /\ CorrIdle /\ OverviewIdle /\ RequestIdle /\ NavIdle /\ DayIdle /\ ActivityIdle /\ SettingsIdle
    /\ PickerIdle /\ NavIdle /\ DayIdle /\ ActivityIdle /\ SettingsIdle

NextTick == TickIntervalCall /\ UNCHANGED othersOfTick

SpecTick == InitTick /\ [][NextTick]_vars

othersOfNav ==
    <<tirVars, agpVars, dailyVars, corrVars, overviewVars, requestVars, pickerVars,
      tickVars, dayVars, activityVars, settingsVars>>

InitNav ==
    /\ NavInit
    /\ TirIdle /\ AgpIdle /\ DailyIdle /\ CorrIdle /\ OverviewIdle /\ RequestIdle /\ DayIdle /\ ActivityIdle /\ SettingsIdle
    /\ PickerIdle /\ TickIdle /\ DayIdle /\ ActivityIdle /\ SettingsIdle

NextNav ==
    \/ (\E days \in {-1, 1} : shiftDate(days)) /\ UNCHANGED othersOfNav
    \/ fetchOverviewSettles /\ UNCHANGED othersOfNav
    \/ Midnight /\ UNCHANGED othersOfNav

SpecNav == InitNav /\ [][NextNav]_vars

othersOfDay ==
    <<tirVars, agpVars, dailyVars, corrVars, overviewVars, requestVars, pickerVars,
      tickVars, navVars, activityVars, settingsVars>>

InitDay ==
    /\ DayInit
    /\ TirIdle /\ AgpIdle /\ DailyIdle /\ CorrIdle /\ OverviewIdle /\ RequestIdle /\ ActivityIdle /\ SettingsIdle
    /\ PickerIdle /\ TickIdle /\ NavIdle /\ ActivityIdle /\ SettingsIdle

NextDayPage ==
    \/ SelectDay /\ UNCHANGED othersOfDay
    \/ ReadingsArrive /\ UNCHANGED othersOfDay

SpecDay == InitDay /\ [][NextDayPage]_vars

othersOfActivity ==
    <<tirVars, agpVars, dailyVars, corrVars, overviewVars, requestVars, pickerVars,
      tickVars, navVars, dayVars, settingsVars>>

InitActivity ==
    /\ ActivityInit
    /\ TirIdle /\ AgpIdle /\ DailyIdle /\ CorrIdle /\ OverviewIdle /\ RequestIdle /\ SettingsIdle
    /\ PickerIdle /\ TickIdle /\ NavIdle /\ DayIdle /\ SettingsIdle

NextActivity ==
    \/ ActivityRangeChange /\ UNCHANGED othersOfActivity
    \/ ActivityFetchSettles /\ UNCHANGED othersOfActivity

SpecActivity == InitActivity /\ [][NextActivity]_vars

othersOfSettings ==
    <<tirVars, agpVars, dailyVars, corrVars, overviewVars, requestVars, pickerVars,
      tickVars, navVars, dayVars, activityVars>>

InitSettings ==
    /\ SettingsInit
    /\ TirIdle /\ AgpIdle /\ DailyIdle /\ CorrIdle /\ OverviewIdle /\ RequestIdle
    /\ PickerIdle /\ TickIdle /\ NavIdle /\ DayIdle /\ ActivityIdle

NextSettings ==
    \/ handleFile /\ UNCHANGED othersOfSettings
    \/ UploadLoad /\ UNCHANGED othersOfSettings
    \/ UploadNetworkError /\ UNCHANGED othersOfSettings

SpecSettings == InitSettings /\ [][NextSettings]_vars

-----------------------------------------------------------------------------
(* Time-in-range: properties *)


RangeSum == tir.in_range_percent + tir.low_percent + tir.high_percent

\* the readings that are neither low nor high
NeitherCount ==
    Cardinality({i \in 1..Len(readings) :
                    ~(readings[i] < low_threshold) /\ ~(readings[i] > high_threshold)})

\* C1 (as stated): every time-in-range result, over any collection of
\* readings, has in_range_percent + low_percent + high_percent within 0.1 of
\* 100.0.  Refuted by the empty collection, whose result is all zeros.
C1_SumIs100_Original ==
    tir.status = 200 => Abs(RangeSum - 1000) <= 1

\* C1 (amended): every time-in-range result over at least one reading has
\* in_range_percent + low_percent + high_percent within 0.1 of 100.0, for
\* any thresholds.
C1_SumIs100 ==
    (tir.status = 200 /\ tir.total_readings > 0) => Abs(RangeSum - 1000) <= 1

\* three thirds, each rounded down to 33.3: the sum is 99.9
C1_Witness ==
    /\ tir.status = 200
    /\ tir.total_readings = 3
    /\ tir.low_percent = 333
    /\ RangeSum = 999

\* C2 (as stated): for any caller-supplied thresholds,
\* very_low_percent <= low_percent and very_high_percent <= high_percent.
\* Refuted by a low threshold below 54 or a high threshold above 250.
C2_Nested_Original ==
    tir.status = 200 =>
        /\ tir.very_low_percent <= tir.low_percent
        /\ tir.very_high_percent <= tir.high_percent

\* C2 (amended): very_low_percent <= low_percent whenever lowThreshold >= 54,
\* and very_high_percent <= high_percent whenever highThreshold <= 250.
C2_Nested ==
    tir.status = 200 =>
        /\ low_threshold >= VERY_LOW => tir.very_low_percent <= tir.low_percent
        /\ high_threshold <= VERY_HIGH => tir.very_high_percent <= tir.high_percent

C2_Witness ==
    /\ tir.status = 200
    /\ low_threshold >= VERY_LOW
    /\ high_threshold <= VERY_HIGH
    /\ low_threshold <= high_threshold
    /\ 0 < tir.very_low_percent /\ tir.very_low_percent < tir.low_percent
    /\ 0 < tir.very_high_percent /\ tir.very_high_percent < tir.high_percent

\* C3: for any thresholds, crossed ones included, no reading is both low and
\* high, the in-range count is the number of readings that are neither, and
\* each of the three counts (hence each percentage) lies between 0 and the
\* total (0.0 and 100.0).
C3_Partition ==
    tir.status = 200 =>
        /\ \A i \in 1..Len(readings) :
              ~(readings[i] < low_threshold /\ readings[i] > high_threshold)
        /\ in_range(readings, low_threshold, high_threshold) = NeitherCount
        /\ in_range(readings, low_threshold, high_threshold) \in 0..Len(readings)
        /\ low(readings, low_threshold) \in 0..Len(readings)
        /\ high(readings, high_threshold) \in 0..Len(readings)
        /\ tir.in_range_percent \in 0..1000
        /\ tir.low_percent \in 0..1000
        /\ tir.high_percent \in 0..1000

\* C4: a reading is low iff value < lowThreshold, high iff value >
\* highThreshold and in-range otherwise, so that readings equal to a threshold
\* are in-range; with thresholds 70 and 180 and a quarter of the readings
\* below, half inside and a quarter above, the result is 25.0 / 50.0 / 25.0.
C4_Classification ==
    (tir.status = 200 /\ tir.total_readings > 0) =>
        LET n == Len(readings)
        IN  /\ tir.low_percent = Round1(low(readings, low_threshold), n)
            /\ tir.high_percent = Round1(high(readings, high_threshold), n)
            /\ tir.in_range_percent = Round1(NeitherCount, n)
            /\ (\A i \in 1..n : readings[i] \in {low_threshold, high_threshold})
                  => tir.in_range_percent = 1000
            /\ ( /\ low_threshold = DEFAULT_LOW_THRESHOLD
                 /\ high_threshold = DEFAULT_HIGH_THRESHOLD
                 /\ n = 4
                 /\ Cardinality({i \in 1..Len(readings) : readings[i] < 70}) = 1
                 /\ Cardinality({i \in 1..Len(readings) : readings[i] > 180}) = 1 )
                  => /\ tir.low_percent = 250
                     /\ tir.in_range_percent = 500
                     /\ tir.high_percent = 250

\* C5: with no readings in the window the response is a normal one with
\* total_readings = 0 and all five percentages 0.
C5_EmptyWindow ==
    (readings = <<>> /\ tir.status # 0) =>
        /\ tir.status = 200
        /\ tir.total_readings = 0
        /\ tir.in_range_percent = 0
        /\ tir.low_percent = 0
        /\ tir.high_percent = 0
        /\ tir.very_low_percent = 0
        /\ tir.very_high_percent = 0

C5_Witness == readings = <<>> /\ tir.status = 200

-----------------------------------------------------------------------------
(* Hourly profile (AGP): properties *)

\* the values of the rows of one hour, as a bag would hold them
ValuesAt(hour) == hourly_values(agp_readings, hour)

DistinctAt(hour) == {ValuesAt(hour)[i] : i \in 1..Len(ValuesAt(hour))}

Percentiles(e) == <<e.p10, e.p25, e.median, e.p75, e.p90>>

Levels == <<10, 25, 50, 75, 90>>

\* C6: the hourly profile has exactly 24 entries and the k-th entry is hour
\* k-1, for any rows in any order.
C6_TwentyFourHours ==
    agp.status = 200 =>
        /\ Len(agp.hourly) = 24
        /\ \A k \in 1..Len(agp.hourly) : agp.hourly[k].hour = k - 1

\* rows supplied in descending hour order, some hours empty
C6_Witness ==
    /\ agp.status = 200
    /\ Len(agp_readings) >= 2
    /\ agp_readings[1].hour = 23
    /\ agp_readings[2].hour = 8
    /\ agp.hourly[24].count > 0
    /\ agp.hourly[1].count = 0

\* C7: in every hour with count > 0 the emitted percentiles are ordered,
\* p10 <= p25 <= median <= p75 <= p90.
C7_PercentilesOrdered ==
    agp.status = 200 =>
        \A k \in 1..Len(agp.hourly) :
            LET e == agp.hourly[k]
            IN  e.count > 0 =>
                    /\ e.p10[1] <= e.p25[1]
                    /\ e.p25[1] <= e.median[1]
                    /\ e.median[1] <= e.p75[1]
                    /\ e.p75[1] <= e.p90[1]

\* an hour of three distinct values supplied out of order, with a strict
\* spread between its percentiles
C7_Witness ==
    /\ agp.status = 200
    /\ \E k \in 1..Len(agp.hourly) :
          LET e == agp.hourly[k]
          IN  /\ e.count >= 3
              /\ ValuesAt(e.hour)[1] > ValuesAt(e.hour)[2]
              /\ e.p10[1] < e.median[1]
              /\ e.median[1] < e.p90[1]

\* C8: every hour of the day is emitted; its count is the number of rows of
\* that hour; and each of its percentiles is null if and only if the count
\* is 0.
C8_EmptyHoursNull ==
    agp.status = 200 =>
        /\ \A h \in 0..23 :
              \E k \in 1..Len(agp.hourly) : agp.hourly[k].hour = h
        /\ \A k \in 1..Len(agp.hourly) :
              LET e == agp.hourly[k]
              IN  /\ e.count = Len(ValuesAt(e.hour))
                  /\ \A j \in 1..5 : (Percentiles(e)[j] = None) <=> (e.count = 0)

\* an empty hour between two hours that have readings
C8_Witness ==
    /\ agp.status = 200
    /\ agp.hourly[1].count > 0
    /\ agp.hourly[9].count = 0 /\ agp.hourly[9].median = None
    /\ agp.hourly[24].count > 0 /\ agp.hourly[24].median # None

\* C9: each emitted percentile is the integer nearest to the linearly
\* interpolated percentile of the hour's values (at most one half away from
\* it, whichever way a tie is broken).
C9_RoundedToNearest ==
    agp.status = 200 =>
        \A k \in 1..Len(agp.hourly) :
            LET e == agp.hourly[k]
            IN  e.count > 0 =>
                    \A j \in 1..5 :
                        Abs(100 * Percentiles(e)[j][1]
                              - np_percentile(ValuesAt(e.hour), Levels[j])) <= 50

\* the hours whose observations are exactly two values a < b
TwoValueHour(e) == e.count = 2 /\ Cardinality(DistinctAt(e.hour)) = 2

MinAt(hour) == CHOOSE a \in DistinctAt(hour) : \A x \in DistinctAt(hour) : a <= x

MaxAt(hour) == CHOOSE b \in DistinctAt(hour) : \A x \in DistinctAt(hour) : x <= b

\* C10 (as stated): for an hour of exactly two values a < b, median = (a+b)/2,
\* p10 and p25 lie strictly between a and the median, and p75 and p90 between
\* the median and b.  Refuted by a = 80, b = 81: every percentile is 80.
C10_TwoValues_Original ==
    agp.status = 200 =>
        \A k \in 1..Len(agp.hourly) :
            LET e == agp.hourly[k]
                a == MinAt(e.hour)
                b == MaxAt(e.hour)
            IN  TwoValueHour(e) =>
                    /\ 2 * e.median[1] = a + b
                    /\ a < e.p10[1] /\ e.p10[1] < e.median[1]
                    /\ a < e.p25[1] /\ e.p25[1] < e.median[1]
                    /\ e.median[1] <= e.p75[1] /\ e.p75[1] <= b
                    /\ e.median[1] <= e.p90[1] /\ e.p90[1] <= b

\* C10 (amended): for an hour of exactly two values a < b,
\* a <= p10 <= p25 <= median <= p75 <= p90 <= b; median = (a+b)/2 when a+b is
\* even; and p10 and p25 lie strictly between a and the median when
\* b - a >= 10.
C10_TwoValues ==
    agp.status = 200 =>
        \A k \in 1..Len(agp.hourly) :
            LET e == agp.hourly[k]
                a == MinAt(e.hour)
                b == MaxAt(e.hour)
            IN  TwoValueHour(e) =>
                    /\ a <= e.p10[1] /\ e.p10[1] <= e.p25[1]
                    /\ e.p25[1] <= e.median[1]
                    /\ e.median[1] <= e.p75[1] /\ e.p75[1] <= e.p90[1]
                    /\ e.p90[1] <= b
                    /\ (a + b) % 2 = 0 => 2 * e.median[1] = a + b
                    /\ b - a >= 10 =>
                          /\ a < e.p10[1] /\ e.p10[1] < e.median[1]
                          /\ a < e.p25[1] /\ e.p25[1] < e.median[1]

\* hour 8 holds 80 and 90: 81, 82, 85, 87, 89
C10_Witness ==
    /\ agp.status = 200
    /\ TwoValueHour(agp.hourly[9])
    /\ MinAt(8) = 80 /\ MaxAt(8) = 90
    /\ agp.hourly[9].p10 = <<81>>
    /\ agp.hourly[9].median = <<85>>
    /\ agp.hourly[9].p90 = <<89>>

-----------------------------------------------------------------------------
(* Daily summaries: properties *)

\* the stored rows the query window selects, by position
WindowIdx ==
    {i \in 1..Len(daily_rows) :
        daily_start <= daily_rows[i].date /\ daily_rows[i].date < daily_end}

IdxOn(d) == {i \in WindowIdx : daily_rows[i].date = d}

WindowDates == {daily_rows[i].date : i \in WindowIdx}

\* the values of date d, in row order
WindowValuesOn(d) == group_values(in_window(daily_rows, daily_start, daily_end), d)

\* C11: the response has exactly one summary for each date of the window that
\* has a reading, in ascending date order, and none with count = 0; with no
\* reading in the window it is the empty list, and it is never an error.
C11_OnePerDate ==
    daily.status # 0 =>
        /\ daily.status = 200
        /\ {daily.body[k].date : k \in 1..Len(daily.body)} = WindowDates
        /\ \A k \in 1..(Len(daily.body) - 1) :
              daily.body[k].date < daily.body[k + 1].date
        /\ \A k \in 1..Len(daily.body) : daily.body[k].count > 0
        /\ WindowDates = {} => daily.body = <<>>

\* rows stored in descending date order, one of them outside the window
C11_Witness ==
    /\ daily.status = 200
    /\ Len(daily_rows) = 3
    /\ daily_rows[1].date = 3 /\ daily_rows[2].date = 2 /\ daily_rows[3].date = 1
    /\ daily_start = 1 /\ daily_end = 3
    /\ Len(daily.body) = 2

\* C12: the avg of every summary is the mean of the date's values rounded
\* half-up: floor(mean + 1/2).
C12_RoundHalfUp ==
    daily.status = 200 =>
        \A k \in 1..Len(daily.body) :
            LET vs == WindowValuesOn(daily.body[k].date)
            IN  daily.body[k].avg = (2 * SumSeq(vs) + Len(vs)) \div (2 * Len(vs))

\* C13: in every summary min and max are the smallest and largest value of
\* the date's rows, count is the number of those rows (equal rows counted
\* each), min <= avg <= max, and the counts add up to the number of rows in
\* the window.
C13_Extrema ==
    daily.status = 200 =>
        /\ \A k \in 1..Len(daily.body) :
              LET e == daily.body[k]
                  idx == IdxOn(e.date)
              IN  /\ \E i \in idx : daily_rows[i].value = e.min
                  /\ \A i \in idx : e.min <= daily_rows[i].value
                  /\ \E i \in idx : daily_rows[i].value = e.max
                  /\ \A i \in idx : daily_rows[i].value <= e.max
                  /\ e.count = Cardinality(idx)
                  /\ e.min <= e.avg /\ e.avg <= e.max
        /\ SumSeq([k \in 1..Len(daily.body) |-> daily.body[k].count])
              = Cardinality(WindowIdx)

\* a date holding the same value twice and a larger one
C13_Witness ==
    /\ daily.status = 200
    /\ \E k \in 1..Len(daily.body) :
          /\ daily.body[k].count = 3
          /\ daily.body[k].min = 80
          /\ daily.body[k].max = 82
          /\ Cardinality(SeqRange(WindowValuesOn(daily.body[k].date))) = 2

-----------------------------------------------------------------------------
(* Correlation properties *)

GlucoseDates == {corr_glucose[i].date : i \in 1..Len(corr_glucose)}

PointsOn(d) == {i \in 1..Len(data.points) : data.points[i].date = d}

AllXEqual(points) == \A i, j \in 1..Len(points) : points[i].x = points[j].x

AllYEqual(points) == \A i, j \in 1..Len(points) : points[i].y = points[j].y

\* C15: a date is in points exactly when glucose was read on it and the y
\* series has it, it is there once, its x is the whole number nearest the
\* mean of that date's glucose values and its y is the y series' value; with
\* no common date points is empty
C15_InnerJoin ==
    data.status = 200 =>
        /\ \A d \in CorrDays :
              Cardinality(PointsOn(d)) =
                  IF d \in GlucoseDates /\ d \in DOMAIN corr_y THEN 1 ELSE 0
        /\ \A i \in 1..Len(data.points) :
              LET p == data.points[i]
                  vs == group_values(corr_glucose, p.date)
              IN  /\ p.date \in CorrDays
                  /\ p.y = corr_y[p.date]
                  /\ 2 * Abs(Len(vs) * p.x - SumSeq(vs)) <= Len(vs)
        /\ GlucoseDates \cap DOMAIN corr_y = {} => data.points = <<>>

C15_Witness ==
    /\ data.status = 200
    /\ Len(data.points) >= 1
    /\ GlucoseDates \ DOMAIN corr_y # {}
    /\ (DOMAIN corr_y) \ GlucoseDates # {}

InUnitInterval(c) == c[1].den_sq > 0 /\ c[1].num * c[1].num <= c[1].den_sq

\* C16 as stated: the coefficient is null with fewer than two joined points
\* and a number in [-1, 1] with two or more
C16_Coefficient_Original ==
    data.status = 200 =>
        /\ Len(data.points) < 2 => data.correlation = None
        /\ Len(data.points) >= 2 =>
              data.correlation # None /\ InUnitInterval(data.correlation)

\* C16: the coefficient is null with fewer than two joined points or when the
\* joined x values or the joined y values are all equal, and a number in
\* [-1, 1] otherwise
C16_Coefficient ==
    data.status = 200 =>
        IF Len(data.points) < 2 \/ AllXEqual(data.points) \/ AllYEqual(data.points)
        THEN data.correlation = None
        ELSE data.correlation # None /\ InUnitInterval(data.correlation)

C16_Witness ==
    /\ data.status = 200
    /\ Len(data.points) = 3
    /\ data.correlation # None
    /\ data.correlation[1].num # 0
    /\ data.correlation[1].num * data.correlation[1].num < data.correlation[1].den_sq

\* C17: with two or more joined points whose x values are all equal or whose
\* y values are all equal the response is a normal one whose correlation is
\* null, not a quotient by zero
C17_ZeroVariance ==
    (/\ data # NoResponse
     /\ Len(data.points) >= 2
     /\ AllXEqual(data.points) \/ AllYEqual(data.points))
        => data.status = 200 /\ data.correlation = None

C17_Witness ==
    /\ data.status = 200
    /\ Len(data.points) >= 2
    /\ AllXEqual(data.points)
    /\ ~AllYEqual(data.points)
    /\ data.correlation = None

\* C18: linearRegression is null exactly with fewer than two points or all
\* x equal; otherwise slope * (n Sxx - Sx Sx) = n Sxy - Sx Sy and
\* n * intercept = Sy - slope * Sx; the rendered trend line is empty when the
\* regression is null and otherwise two points, at the minimum and the
\* maximum x, on the regression line
C18_Regression ==
    data.status = 200 =>
        LET pts == data.points
            n == Len(pts)
            reg == linearRegression(pts)
        IN  /\ reg = None <=> (n < 2 \/ AllXEqual(pts))
            /\ reg # None =>
                  /\ reg[1].slope_den # 0 /\ reg[1].icpt_den # 0
                  /\ reg[1].slope_num * XMoment(pts) = CoMoment(pts) * reg[1].slope_den
                  /\ n * reg[1].icpt_num * reg[1].slope_den =
                        (SumY(pts) * reg[1].slope_den - reg[1].slope_num * SumX(pts))
                            * reg[1].icpt_den
            /\ trend # NotRendered =>
                  IF reg = None THEN trend = <<>>
                  ELSE /\ Len(trend) = 2
                       /\ trend[1].x = MinX(pts) /\ trend[2].x = MaxX(pts)
                       /\ \A i \in 1..Len(pts) :
                             trend[1].x <= pts[i].x /\ pts[i].x <= trend[2].x
                       /\ \A k \in 1..2 :
                             /\ trend[k].y_den # 0
                             /\ (n * trend[k].y_num - SumY(pts) * trend[k].y_den)
                                    * XMoment(pts) =
                                CoMoment(pts) * (n * trend[k].x - SumX(pts))
                                    * trend[k].y_den

C18_Witness ==
    /\ data.status = 200
    /\ Len(trend) = 2
    /\ trend[1].x < trend[2].x
    /\ trend[1].y_num * trend[2].y_den # trend[2].y_num * trend[1].y_den

-----------------------------------------------------------------------------
(* Overview properties *)

\* the snapshot field and the key a card takes its value from
CardSource ==
    [restingHR |-> <<"heartRate", "resting_heart_rate">>,
     sleepScore |-> <<"sleep", "overall_score">>,
     steps |-> <<"activity", "steps">>,
     spo2 |-> <<"spo2", "avg_spo2">>,
     hrv |-> <<"hrv", "daily_rmssd">>,
     breathingRate |-> <<"breathingRate", "breathing_rate">>,
     skinTemp |-> <<"skinTemperature", "relative_temp">>,
     vo2max |-> <<"vo2Max", "vo2_max">>,
     stress |-> <<"stress", "stress_score">>,
     activeZone |-> <<"activity", "active_zone_minutes">>,
     calories |-> <<"activity", "calories_total">>]

DecimalCards == {"spo2", "hrv", "breathingRate", "skinTemp", "vo2max"}

\* the card shows the number raw: as it is, or to one decimal
ShowsValue(card, c, raw) ==
    IF raw = None THEN card.value = None /\ ~card.hasValue
    ELSE /\ card.hasValue
         /\ card.value # None
         /\ IF c \in DecimalCards
            THEN Abs(10 * card.value[1][2] - raw[1]) <= 5
            ELSE card.value[1][2] = raw[1]

\* C19: once a successful overview response is shown, whatever subset of the
\* nine fields is null, no error is set; if any field is present the cards
\* are shown and every card of a present field shows that field's own value;
\* and with any one field made null every card of another present field
\* is shown unchanged
C19_Independent ==
    (ov_response.ok /\ ~ov_loading) =>
        LET j == ov_response.json
            present == {m \in DOMAIN j : j[m] # None}
        IN  /\ ov_error = None
            /\ ov_view.kind = (IF present = {} THEN "empty" ELSE "cards")
            /\ \A c \in DOMAIN CardSource :
                  CardSource[c][1] \in present =>
                      ShowsValue(ov_view.cards[c], c,
                                 j[CardSource[c][1]][1][CardSource[c][2]])
            /\ \A m \in DOMAIN j :
                  LET without == OverviewView(Some([j EXCEPT ![m] = None]),
                                              FALSE, None)
                  IN  \A c \in DOMAIN CardSource :
                        (CardSource[c][1] \in present \ {m}) =>
                            /\ without.kind = "cards"
                            /\ without.cards[c] = ov_view.cards[c]

\* a response with some fields null and others present has been shown, one
\* present field holding a null value
C19_Witness ==
    /\ ov_response.ok
    /\ ~ov_loading
    /\ ov_response.json.heartRate = None
    /\ ov_response.json.spo2 = None
    /\ ov_response.json.sleep # None
    /\ ov_response.json.stress # None
    /\ ov_view.kind = "cards"
    /\ ov_view.cards.stress.hasValue
    /\ ~ov_view.cards.sleepScore.hasValue
    /\ ~ov_view.cards.restingHR.hasValue

-----------------------------------------------------------------------------
(* API client properties *)

FetchesOf(call) == {i \in 1..Len(fetch_log) : fetch_log[i].call = call}

-----------------------------------------------------------------------------
(* DateRangePicker properties *)

DayCountPresets == {i \in 1..Len(PRESETS) : PRESETS[i].days # None}

Highlighted == {PRESETS[i].label : i \in {k \in 1..Len(PRESETS) :
                                             dp_activePreset = Some(PRESETS[k].label)}}

\* C21: after a click on Today, 7d, 30d or 90d, onChange has been called
\* once, with end = today and start = that many days before it, both without
\* a time of day, and that preset alone is highlighted
C21_DayPreset ==
    \A i \in DayCountPresets :
        (dp_last.kind = "preset" /\ dp_last.label = PRESETS[i].label) =>
            /\ Len(dp_onChange) = 1
            /\ dp_onChange[1][2] = dp_now.day
            /\ dp_onChange[1][2] - dp_onChange[1][1] = PRESETS[i].days[1]
            /\ Highlighted = {PRESETS[i].label}

\* 90d has been clicked late in the evening
C21_Witness ==
    /\ dp_last.kind = "preset"
    /\ dp_last.label = "90d"
    /\ dp_now.time = "23:59"
    /\ dp_onChange = <<<<dp_now.day - 90, dp_now.day>>>>

\* C22: a preset is highlighted exactly when the last action was a click on
\* it; after a manual edit no preset is highlighted and onChange has been
\* called once with the edited bound replaced and the other bound, which
\* keeps its value, passed as it was
C22_ActivePreset ==
    /\ \A i \in 1..Len(PRESETS) :
          PRESETS[i].label \in Highlighted <=>
              (dp_last.kind = "preset" /\ dp_last.label = PRESETS[i].label)
    /\ dp_last.kind = "edit" =>
          /\ dp_activePreset = None
          /\ dp_onChange = <<IF dp_last.bound = "start"
                             THEN <<dp_last.value, dp_last.other>>
                             ELSE <<dp_last.other, dp_last.value>>>>
          /\ dp_last.other = (IF dp_last.bound = "start" THEN dp_endDate
                              ELSE dp_startDate)

\* the start has been edited after a preset set another range
C22_Witness ==
    /\ dp_last.kind = "edit"
    /\ dp_last.bound = "start"
    /\ dp_endDate = dp_now.day
    /\ dp_endDate \notin PickerDays
    /\ dp_activePreset = None

\* C25: after a click on All, onChange has been called with end = today and
\* start = the earliest startDate of the metrics, or five years before today
\* when the metrics fetch failed
C25_AllPreset ==
    (dp_last.kind = "preset" /\ dp_last.label = "All") =>
        /\ Len(dp_onChange) = 1
        /\ dp_onChange[1][2] = dp_now.day
        /\ dp_metrics.kind = "rejected" =>
              dp_onChange[1][1] = dp_now.day - 5 * DAYS_PER_YEAR
        /\ dp_metrics.kind # "rejected" =>
              /\ dp_metrics.kind = "json"
              /\ earliest(dp_metrics.metrics) = Some(dp_onChange[1][1])

-----------------------------------------------------------------------------
(* Tick interval properties *)

\* ceil(a / b) for a >= 0, b > 0
Ceil(a, b) == (a + b - 1) \div b

\* ticks drawn for n points when every (interval + 1)-th is shown
TicksDrawn == Ceil(tick_dataLength, tick_interval[1] + 1)

\* C24 as stated: above 12 points between 8 and 12 ticks are drawn, and up
\* to 12 points the interval is 0
C24_Ticks_Original ==
    tick_interval # None =>
        IF tick_dataLength > 12
        THEN 8 <= TicksDrawn /\ TicksDrawn <= 12
        ELSE tick_interval = Some(0)

\* C24: above 12 points between 7 and 12 ticks are drawn, and up to 12
\* points the interval is 0, every point a tick
C24_Ticks ==
    tick_interval # None =>
        IF tick_dataLength > 12
        THEN 7 <= TicksDrawn /\ TicksDrawn <= 12
        ELSE tick_interval = Some(0) /\ TicksDrawn = tick_dataLength

\* thirteen points are drawn with seven ticks
C24_Witness ==
    /\ tick_dataLength = 13
    /\ tick_interval = Some(1)
    /\ TicksDrawn = 7

-----------------------------------------------------------------------------
(* Overview navigation properties *)

\* a is the same calendar day as b or an earlier one
DayLeq(a, b) ==
    \/ a.y < b.y
    \/ a.y = b.y /\ a.m < b.m
    \/ a.y = b.y /\ a.m = b.m /\ a.d <= b.d

\* C23: the selected date is never after today, and after a press of the
\* previous or next button it is the neighbouring day when that day was not
\* after today, and the day it was otherwise
C23_NoFutureDate ==
    /\ DayLeq(parseDate(nav_date), nav_today)
    /\ nav_last.kind = "shift" =>
          LET target == IF nav_last.days = 1 THEN NextDay(nav_last.from)
                        ELSE PrevDay(nav_last.from)
          IN  parseDate(nav_date) =
                  IF DayLeq(target, nav_last.today) THEN target ELSE nav_last.from

\* next was pressed on today's date at the end of a month and changed nothing
C23_Witness ==
    /\ nav_last.kind = "shift"
    /\ nav_last.days = 1
    /\ nav_last.from = [y |-> 2024, m |-> 9, d |-> 30]
    /\ nav_last.today = nav_last.from
    /\ parseDate(nav_date) = nav_last.from

\* C27: with no request outstanding, the response written last, and the
\* snapshot shown, are those of the selected date
C27_LatestWins ==
    nav_inflight = {} =>
        /\ nav_applied.date = nav_date
        /\ nav_data # None => nav_data = Some(nav_date)

-----------------------------------------------------------------------------
(* Selected-day readings properties *)

\* the arrival left readings and the loading flag as they were
ArrivalIgnored ==
    /\ day_readings = day_step.readings_before
    /\ day_loading = day_step.loading_before

\* the arrival wrote its readings, or the empty list for a failure or a body
\* without readings, and cleared the loading flag
ArrivalWritten ==
    /\ day_readings = (IF day_step.response.ok /\ day_step.response.readings # None
                       THEN day_step.response.readings[1] ELSE <<>>)
    /\ day_loading = FALSE

\* C26 as stated: an arriving response is ignored when it was requested for a
\* day that is not the selected one, and written when it was requested for
\* the selected day
C26_SelectedDay_Original ==
    day_step.kind = "arrive" =>
        IF day_step.request.day # selectedDay THEN ArrivalIgnored ELSE ArrivalWritten

\* C26: an arriving response is ignored when a later day selection has
\* superseded its request, and written when its request is the one made by
\* the latest selection
C26_SelectedDay ==
    day_step.kind = "arrive" =>
        IF day_step.request.id # day_issued THEN ArrivalIgnored ELSE ArrivalWritten

\* the response to the first request arrived after two changes of day
\* brought its day back, while loading, and was ignored
C26_Witness ==
    /\ day_step.kind = "arrive"
    /\ day_step.request.id = 1
    /\ day_step.request.day = selectedDay
    /\ day_issued = 3
    /\ day_step.response.readings = Some(<<95, 140>>)
    /\ day_loading
    /\ day_readings # <<95, 140>>

-----------------------------------------------------------------------------
(* Activity properties *)

\* C28: while the fetch for the current range is in flight loadingActivity
\* is true, and the settling of an aborted fetch leaves errorActivity as it
\* was
C28_LoadingWhileInFlight ==
    /\ (\E r \in act_requests : ~r.aborted /\ r.range = act_range) => act_loading
    /\ (act_step.kind = "settle" /\ act_step.request.aborted) =>
          act_error = act_step.error_before

-----------------------------------------------------------------------------
(* Settings properties *)

\* C29: the success message and the error message are never both set, and
\* every upload started is of a file whose name ends in .zip
C29_OneMessage ==
    /\ ~(uploadResult # None /\ uploadError # None)
    /\ \A i \in 1..Len(up_uploads) : endsWithZip(up_uploads[i].file)

\* C30: uploading is true exactly while the promise of some started upload
\* is unsettled; a promise is settled once its request is over, and
\* resolved only for a 2xx status
C30_UploadingFlag ==
    /\ uploading <=> (\E i \in 1..Len(up_uploads) : up_uploads[i].promise = "pending")
    /\ \A i \in 1..Len(up_uploads) :
          /\ up_uploads[i].xhr = "done" => up_uploads[i].promise # "pending"
          /\ up_uploads[i].promise = "resolved" =>
                up_uploads[i].status >= 200 /\ up_uploads[i].status < 300

=============================================================================
